---- MODULE Spec2Model ----
(***************************************************************************)
(* A model of the learn-wgpu renderer: the camera and its controller       *)
(* (src/src/camera.rs), the State aggregate with its resize / input /      *)
(* update / render steps and the winit event loop of main                  *)
(* (src/src/main.rs), and the draw traits (src/src/light.rs,               *)
(* src/src/model.rs).                                                      *)
(*                                                                         *)
(* Numbers.  f32 quantities are fixed-point integers:                      *)
(*   angles     in 1e-4 rad   (FRAC_PI_2 = 1.5708 rad = 15708)             *)
(*   time (dt)  in 1e-3 s                                                  *)
(*   lengths    in 1e-3 world units                                        *)
(*   speed      in world units per second (4.0 = 4)                        *)
(*   sensitivity in tenths    (0.4 = 4)                                    *)
(* so that  delta * sensitivity * dt  is an angle in 1e-4 rad and          *)
(* amount * speed * dt  a length in 1e-3 units, both without rounding.     *)
(* A ratio (the aspect) is the pair <<num, den>> in lowest terms.          *)
(***************************************************************************)
EXTENDS Integers, Sequences, FiniteSets, TLC

VARIABLES
  state,         \* the State aggregate of main.rs (CPU side and GPU buffers)
  surface,       \* the presentation surface's own configuration <<w, h>>
  pc,            \* position of the event loop within one iteration
  control_flow,  \* winit's ControlFlow as the closure left it
  last,          \* the call the closure made last: what was called, with
                 \* what, what it returned and the calls it made in turn
  fatal,         \* an OutOfMemory acquisition has been seen
  exit_code,     \* the process exit status: <<>> while running
  loading,       \* the locals of State::new / Model::load while they run
  held           \* the keys down on the keyboard, where the specification
                 \* follows the keyboard (KeySpec does)

vars == <<state, surface, pc, control_flow, last, fatal, exit_code, loading,
          held>>

(***************************************************************************)
(* Bounds of the model and the inputs drawn by the actions.                *)
(***************************************************************************)
\* The redraws of one run span at most this much time in all, in ms.
MaxElapsed == 2

\* Instances per row of the grid the frame loop is run with (the program's
\* NUM_INSTANCES_PER_ROW is 10; the loop reads the grid only as a list).
LoopRows == 2

\* The keys that are down at the same time are at most this many.
MaxHeld == 2

\* Elapsed time between two redraws, in ms.
DtSet == {0, 1}

\* Raw pointer deltas <<dx, dy>>.  3927 * 0.4 * 1 ms is a quarter turn of
\* yaw.  -4000 * 0.4 * 1 ms raises the pitch by 1.6 rad: from the initial
\* -0.3491 rad to 1.2509 rad, inside the clamp bounds, and the next time
\* past the upper one.  8000 * 0.4 * 1 ms lowers it by 3.2 rad, past the
\* lower bound from anywhere inside them.
MouseDeltas == {<<3927, -4000>>, <<0, 8000>>}

\* Window sizes delivered by Resized / ScaleFactorChanged.
Sizes == {<<0, 0>>, <<0, 2>>, <<2, 0>>, <<2, 1>>, <<1, 2>>}

\* Sizes the window can have when State::new runs.
InitSizes == {<<2, 1>>}

ElementStates == {"Pressed", "Released"}

\* The keys process_keyboard knows, and one it does not.
Keys == {"W", "Up", "S", "Down", "A", "Left", "D", "Right",
         "Space", "LControl", "LShift", "F1"}

\* The keys the frame-loop specification presses.
LoopKeys == {"W", "F1"}

Buttons == {1, 3}

SurfaceResults == {"Ok", "Timeout", "Outdated", "Lost", "OutOfMemory"}

(***************************************************************************)
(* camera.rs                                                               *)
(***************************************************************************)
FRAC_PI_2 == 15708

SAFE_FRAC_PI_2 == FRAC_PI_2 - 1

Abs(n) == IF n < 0 THEN -n ELSE n

RECURSIVE Gcd(_, _)
Gcd(a, b) == IF b = 0 THEN a ELSE Gcd(b, a % b)

\* width as f32 / height as f32: the quotient, as a fraction in lowest
\* terms; x/0 is +inf (<<1, 0>>) and 0/0 is NaN (<<0, 0>>).
Ratio(w, h) ==
  IF h = 0 THEN (IF w = 0 THEN <<0, 0>> ELSE <<1, 0>>)
  ELSE <<w \div Gcd(w, h), h \div Gcd(w, h)>>

Camera_new(position, yaw, pitch, width, height, fovy, near, far) ==
  [position |-> position, yaw |-> yaw, pitch |-> pitch,
   aspect |-> Ratio(width, height), fovy |-> fovy, near |-> near, far |-> far]

\* Camera::resize leaving the aspect as it was.
Camera_resize_keep(camera, width, height) == camera

Camera_resize(camera, width, height) ==
  [camera EXCEPT !.aspect = Ratio(width, height)]

\* sin and cos of a yaw that is a whole number of quarter turns.
QuarterTurns(yaw) == (yaw \div FRAC_PI_2) % 4

Cos(yaw) == CASE QuarterTurns(yaw) = 0 -> 1
              [] QuarterTurns(yaw) = 2 -> -1
              [] OTHER -> 0

Sin(yaw) == CASE QuarterTurns(yaw) = 1 -> 1
              [] QuarterTurns(yaw) = 3 -> -1
              [] OTHER -> 0

\* Camera::view: look_to_rh(position, normalize(cos yaw, sin pitch, sin yaw),
\* unit_y), kept as the terms the matrix is built from.
Camera_view(camera) ==
  [eye |-> camera.position, yaw |-> camera.yaw, pitch |-> camera.pitch]

\* Camera::projection: OPENGL_TO_WGPU_MATRIX * perspective(fovy, aspect,
\* near, far), kept as the terms the matrix is built from.
Camera_projection(camera) ==
  [fovy |-> camera.fovy, aspect |-> camera.aspect,
   near |-> camera.near, far |-> camera.far]

CameraUniform_new == [view_pos |-> <<0, 0, 0, 0>>, view_proj |-> "identity"]

\* CameraUniform::update_view_proj: to_homogeneous appends w = 1.
CameraUniform_update_view_proj(uniform, camera) ==
  [view_pos |-> camera.position \o <<1>>,
   view_proj |-> [projection |-> Camera_projection(camera),
                  view |-> Camera_view(camera)]]

Controller_new(speed, sensitivity) ==
  [amount_left |-> 0, amount_right |-> 0, amount_forward |-> 0,
   amount_backward |-> 0, amount_up |-> 0, amount_down |-> 0,
   rotate_horizontal |-> 0, rotate_vertical |-> 0,
   speed |-> speed, fast |-> FALSE, sensitivity |-> sensitivity]

\* process_keyboard with the Down arrow taken for the down movement.
Controller_process_keyboard_down(c, key, st) ==
  LET amount == IF st = "Pressed" THEN 1 ELSE 0 IN
  CASE key \in {"W", "Up"} ->
         [controller |-> [c EXCEPT !.amount_forward = amount], ret |-> TRUE]
    [] key \in {"S"} ->
         [controller |-> [c EXCEPT !.amount_backward = amount], ret |-> TRUE]
    [] key \in {"A", "Left"} ->
         [controller |-> [c EXCEPT !.amount_left = amount], ret |-> TRUE]
    [] key \in {"D", "Right"} ->
         [controller |-> [c EXCEPT !.amount_right = amount], ret |-> TRUE]
    [] key = "Space" ->
         [controller |-> [c EXCEPT !.amount_up = amount], ret |-> TRUE]
    [] key \in {"LControl", "Down"} ->
         [controller |-> [c EXCEPT !.amount_down = amount], ret |-> TRUE]
    [] key = "LShift" ->
         [controller |-> [c EXCEPT !.fast = (st = "Pressed")], ret |-> TRUE]
    [] OTHER -> [controller |-> c, ret |-> FALSE]

\* process_keyboard counting, for the four directions, the keys held: a
\* press adds one to the flag and a release takes one off.
Controller_process_keyboard_counting(c, key, st) ==
  LET amount == IF st = "Pressed" THEN 1 ELSE 0
      count(n) == IF st = "Pressed" THEN n + 1
                  ELSE IF n > 0 THEN n - 1 ELSE 0
  IN
  CASE key \in {"W", "Up"} ->
         [controller |-> [c EXCEPT !.amount_forward = count(@)], ret |-> TRUE]
    [] key \in {"S", "Down"} ->
         [controller |-> [c EXCEPT !.amount_backward = count(@)], ret |-> TRUE]
    [] key \in {"A", "Left"} ->
         [controller |-> [c EXCEPT !.amount_left = count(@)], ret |-> TRUE]
    [] key \in {"D", "Right"} ->
         [controller |-> [c EXCEPT !.amount_right = count(@)], ret |-> TRUE]
    [] key = "Space" ->
         [controller |-> [c EXCEPT !.amount_up = amount], ret |-> TRUE]
    [] key = "LControl" ->
         [controller |-> [c EXCEPT !.amount_down = amount], ret |-> TRUE]
    [] key = "LShift" ->
         [controller |-> [c EXCEPT !.fast = (st = "Pressed")], ret |-> TRUE]
    [] OTHER -> [controller |-> c, ret |-> FALSE]

\* Controller::process_keyboard: the controller afterwards and the value
\* returned.
Controller_process_keyboard(c, key, st) ==
  LET amount == IF st = "Pressed" THEN 1 ELSE 0 IN
  CASE key \in {"W", "Up"} ->
         [controller |-> [c EXCEPT !.amount_forward = amount], ret |-> TRUE]
    [] key \in {"S", "Down"} ->
         [controller |-> [c EXCEPT !.amount_backward = amount], ret |-> TRUE]
    [] key \in {"A", "Left"} ->
         [controller |-> [c EXCEPT !.amount_left = amount], ret |-> TRUE]
    [] key \in {"D", "Right"} ->
         [controller |-> [c EXCEPT !.amount_right = amount], ret |-> TRUE]
    [] key = "Space" ->
         [controller |-> [c EXCEPT !.amount_up = amount], ret |-> TRUE]
    [] key = "LControl" ->
         [controller |-> [c EXCEPT !.amount_down = amount], ret |-> TRUE]
    [] key = "LShift" ->
         [controller |-> [c EXCEPT !.fast = (st = "Pressed")], ret |-> TRUE]
    [] OTHER -> [controller |-> c, ret |-> FALSE]

Controller_process_mouse(c, mouse_dx, mouse_dy) ==
  [c EXCEPT !.rotate_horizontal = mouse_dx, !.rotate_vertical = mouse_dy]

\* ClampPitch without its second arm.
ClampPitch_lower_only(pitch) ==
  IF pitch < -SAFE_FRAC_PI_2 THEN -SAFE_FRAC_PI_2 ELSE pitch

\* The clamp at the end of update_camera.
ClampPitch(pitch) ==
  IF pitch < -SAFE_FRAC_PI_2 THEN -SAFE_FRAC_PI_2
  ELSE IF pitch > SAFE_FRAC_PI_2 THEN SAFE_FRAC_PI_2
  ELSE pitch

\* The deltas left as they are.
ZeroRotation_skipped(c) == c

\* The end of the rotation step of update_camera: both deltas are reset.
ZeroRotation(c) == [c EXCEPT !.rotate_horizontal = 0, !.rotate_vertical = 0]

\* Controller::update_camera: the controller and the camera afterwards.
Controller_update_camera(c, camera, dt) ==
  LET speed   == IF c.fast THEN c.speed * 2 ELSE c.speed
      yaw_sin == Sin(camera.yaw)
      yaw_cos == Cos(camera.yaw)
      forward == <<yaw_cos, 0, yaw_sin>>
      right   == <<-yaw_sin, 0, yaw_cos>>
      fb      == (c.amount_forward - c.amount_backward) * speed * dt
      rl      == (c.amount_right - c.amount_left) * speed * dt
      ud      == (c.amount_up - c.amount_down) * speed * dt
      p       == camera.position
      position == <<p[1] + forward[1] * fb + right[1] * rl,
                    p[2] + forward[2] * fb + right[2] * rl + ud,
                    p[3] + forward[3] * fb + right[3] * rl>>
      yaw     == camera.yaw + c.rotate_horizontal * c.sensitivity * dt
      pitch   == camera.pitch + (-c.rotate_vertical) * c.sensitivity * dt
  IN [controller |-> ZeroRotation(c),
      camera |-> [camera EXCEPT !.position = position, !.yaw = yaw,
                                !.pitch = ClampPitch(pitch)]]

(***************************************************************************)
(* light.rs and the scene of main.rs                                       *)
(***************************************************************************)
\* cgmath::Deg to Rad, in 1e-4 rad.
Deg(d) == (d * 2 * FRAC_PI_2) \div 180

LightUniform_new(position, color) ==
  [position |-> position, padding |-> 0, color |-> color]

\* rotation * position for a rotation about the world up axis by 60 * dt
\* degrees: a light position is the point the light started from and the
\* angle it has orbited by since, in millidegrees (dt is in ms).
OrbitLight(position, dt) ==
  [position EXCEPT !.turn = (position.turn + 60 * dt) % 360000]

NUM_INSTANCES_PER_ROW == 10

ANGULAR_VELOCITY == 0

SPACE_BETWEEN == 3

\* A quaternion is the product of the axis-angle rotations it was built
\* from; a rotation by angle 0 is the identity, the empty product.
Quaternion_from_axis_angle(axis, angle) ==
  IF angle = 0 THEN <<>> ELSE <<[axis |-> axis, angle |-> angle]>>

Quaternion_mul(a, b) == a \o b

\* v.normalize(): the direction of v, as the shortest integer vector along it.
Normalize(v) ==
  LET g == Gcd(Abs(v[1]), Gcd(Abs(v[2]), Abs(v[3])))
  IN IF g = 0 THEN v ELSE <<v[1] \div g, v[2] \div g, v[3] \div g>>

\* GridInstance with the column taken for the row.
GridInstance_column_major(x, z, n) ==
  LET position == <<SPACE_BETWEEN * (1000 * z - 500 * n),
                    0,
                    SPACE_BETWEEN * (1000 * x - 500 * n)>>
  IN [position |-> position,
      rotation |-> IF position = <<0, 0, 0>>
                   THEN Quaternion_from_axis_angle(<<0, 0, 1>>, Deg(0))
                   ELSE Quaternion_from_axis_angle(Normalize(position), Deg(45))]

\* The instance at column x of row z of an n x n grid (main.rs, State::new,
\* where n is NUM_INSTANCES_PER_ROW).
GridInstance(x, z, n) ==
  LET position == <<SPACE_BETWEEN * (1000 * x - 500 * n),
                    0,
                    SPACE_BETWEEN * (1000 * z - 500 * n)>>
  IN [position |-> position,
      rotation |-> IF position = <<0, 0, 0>>
                   THEN Quaternion_from_axis_angle(<<0, 0, 1>>, Deg(0))
                   ELSE Quaternion_from_axis_angle(Normalize(position), Deg(45))]

\* (0..n).flat_map(|z| (0..n).map(|x| ...)): row z outer, column x inner.
GridInstances(n) ==
  [i \in 1..(n * n) |-> GridInstance((i - 1) % n, (i - 1) \div n, n)]

\* Instance::data: translation * rotation, and the rotation's 3x3 matrix.
Instance_data(instance) ==
  [model |-> [translation |-> instance.position, rotation |-> instance.rotation],
   normal |-> instance.rotation]

InstanceDataOf(instances) ==
  [i \in 1..Len(instances) |-> Instance_data(instances[i])]

\* queue.write_buffer(buffer, offset, data): data replaces the buffer's
\* contents from offset on, for the length of data.
WriteBuffer(buffer, offset, data) ==
  [i \in 1..Len(buffer) |->
     IF i > offset /\ i <= offset + Len(data) THEN data[i - offset]
     ELSE buffer[i]]

(***************************************************************************)
(* model.rs: Model::load                                                   *)
(*                                                                         *)
(* What tobj::load_obj returned is a list of models, each with the flat    *)
(* lists positions, texcoords and normals, the index list and              *)
(* material_id (<<>> for None, <<k>> for Some(k)), and a list of           *)
(* materials.  Positions and texture coordinates are whole units.  A       *)
(* tangent or bitangent is [v, over, finite]: the vector v / sqrt(over)    *)
(* when finite, an inf or NaN vector otherwise; an accumulated one is in   *)
(* 1e-3 units (over = 1000 * 1000).                                        *)
(***************************************************************************)
\* v3 of the i-th triple of a flat list (i from 0).
V3(flat, i) == <<flat[3 * i + 1], flat[3 * i + 2], flat[3 * i + 3]>>

\* v2 of the i-th pair of a flat list (i from 0).
V2(flat, i) == <<flat[2 * i + 1], flat[2 * i + 2]>>

Sub3(a, b) == <<a[1] - b[1], a[2] - b[2], a[3] - b[3]>>

Sub2(a, b) == <<a[1] - b[1], a[2] - b[2]>>

Dot(a, b) == a[1] * b[1] + a[2] * b[2] + a[3] * b[3]

\* [0.0; 3]
ZeroVector == [v |-> <<0, 0, 0>>, over |-> 1000 * 1000, finite |-> TRUE]

NonFinite == [v |-> <<0, 0, 0>>, over |-> 1000 * 1000, finite |-> FALSE]

\* a + b of two accumulated vectors: inf and NaN absorb.
VectorAdd(a, b) ==
  IF a.finite /\ b.finite
  THEN [a EXCEPT !.v = <<a.v[1] + b.v[1], a.v[2] + b.v[2], a.v[3] + b.v[3]>>]
  ELSE NonFinite

\* (dpos_a * s - dpos_b * t) * r with r = 1.0 / det, in 1e-3 units; r is
\* inf when det is zero, and every component of the product is then inf
\* or NaN.
TimesR(dpos_a, s, dpos_b, t, det) ==
  IF det = 0 THEN NonFinite
  ELSE [ZeroVector EXCEPT !.v =
          << ((dpos_a[1] * s - dpos_b[1] * t) * 1000) \div det,
             ((dpos_a[2] * s - dpos_b[2] * t) * 1000) \div det,
             ((dpos_a[3] * s - dpos_b[3] * t) * 1000) \div det >>]

\* v * denom with denom = 1.0 / n as f32: inf for n = 0, and v * inf has
\* no finite component.
TimesDenom(a, n) ==
  IF ~a.finite \/ n = 0 THEN NonFinite
  ELSE [a EXCEPT !.v = <<a.v[1] \div n, a.v[2] \div n, a.v[3] \div n>>]

\* normalize() handing its argument back.
Vector_normalize_skipped(a) == a

\* InnerSpace::normalize: v / v.magnitude(); 0 / 0 is NaN.
Vector_normalize(a) ==
  IF ~a.finite \/ a.v = <<0, 0, 0>> THEN NonFinite
  ELSE [a EXCEPT !.over = Dot(a.v, a.v)]

\* The vertices pushed for one tobj model, tangent and bitangent zero.
NewVertices(mesh) ==
  [k \in 1..(Len(mesh.positions) \div 3) |->
     [position |-> V3(mesh.positions, k - 1),
      tex_coords |-> V2(mesh.texcoords, k - 1),
      normal |-> V3(mesh.normals, k - 1),
      tangent |-> ZeroVector,
      bitangent |-> ZeroVector]]

\* let mut triangles_included = (0..vertices.len()).collect::<Vec<_>>();
NewTrianglesIncluded(vertices) == [k \in 1..Len(vertices) |-> k - 1]

\* One pass of `for idx in indices.chunks(3)`: the vertices and the counters
\* afterwards.  v is a copy of the three vertices taken before any is
\* written.
TriangleStep(vertices, triangles_included, idx) ==
  LET i0 == idx[1] + 1
      i1 == idx[2] + 1
      i2 == idx[3] + 1
      v0 == vertices[i0]
      v1 == vertices[i1]
      v2 == vertices[i2]
      dpos0 == Sub3(v1.position, v0.position)
      dpos1 == Sub3(v2.position, v0.position)
      duv0 == Sub2(v1.tex_coords, v0.tex_coords)
      duv1 == Sub2(v2.tex_coords, v0.tex_coords)
      det == duv0[1] * duv1[2] - duv0[2] * duv1[1]
      tangent == TimesR(dpos0, duv1[2], dpos1, duv0[2], det)
      bitangent == TimesR(dpos1, duv0[1], dpos0, duv1[1], det)
      t0 == [vertices EXCEPT ![i0].tangent = VectorAdd(tangent, v0.tangent)]
      t1 == [t0 EXCEPT ![i1].tangent = VectorAdd(tangent, v1.tangent)]
      t2 == [t1 EXCEPT ![i2].tangent = VectorAdd(tangent, v2.tangent)]
      b0 == [t2 EXCEPT ![i0].bitangent = VectorAdd(bitangent, v0.bitangent)]
      b1 == [b0 EXCEPT ![i1].bitangent = VectorAdd(bitangent, v1.bitangent)]
      b2 == [b1 EXCEPT ![i2].bitangent = VectorAdd(bitangent, v2.bitangent)]
      n0 == [triangles_included EXCEPT ![i0] = @ + 1]
      n1 == [n0 EXCEPT ![i1] = @ + 1]
      n2 == [n1 EXCEPT ![i2] = @ + 1]
  IN [vertices |-> b2, triangles_included |-> n2]

\* for (i, n) in triangles_included.into_iter().enumerate(): every vertex's
\* tangent and bitangent scaled by 1 / n and normalized.
AverageStep(vertices, triangles_included) ==
  [k \in 1..Len(vertices) |->
     [vertices[k] EXCEPT
        !.tangent = Vector_normalize(TimesDenom(@, triangles_included[k])),
        !.bitangent = Vector_normalize(TimesDenom(@, triangles_included[k]))]]

\* The chunk of three indices number t (from 0).
Chunk(indices, t) == V3(indices, t)

\* The whole of `for idx in indices.chunks(3)` from chunk t on.
RECURSIVE Triangles(_, _, _, _)
Triangles(vertices, triangles_included, indices, t) ==
  IF 3 * t >= Len(indices)
  THEN [vertices |-> vertices, triangles_included |-> triangles_included]
  ELSE LET r == TriangleStep(vertices, triangles_included, Chunk(indices, t))
       IN Triangles(r.vertices, r.triangles_included, indices, t + 1)

\* The two buffers created from the vertices and the indices, and the Mesh
\* record pushed.
NewMesh(mesh, vertices) ==
  [name |-> mesh.name,
   vertex_buffer |-> vertices,
   index_buffer |-> mesh.indices,
   num_elements |-> Len(mesh.indices),
   material |-> IF mesh.material_id = <<>> THEN 0 ELSE mesh.material_id[1]]

\* One tobj model made into a Mesh.
LoadMesh(mesh) ==
  LET vertices == NewVertices(mesh)
      r == Triangles(vertices, NewTrianglesIncluded(vertices), mesh.indices, 0)
  IN NewMesh(mesh, AverageStep(r.vertices, r.triangles_included))

\* Model::load when every texture loads: a material is known by its name.
Model_load(obj_models, obj_materials) ==
  [meshes |-> [k \in 1..Len(obj_models) |-> LoadMesh(obj_models[k])],
   materials |-> obj_materials]

\* A unit square of two triangles, its texture coordinates along its sides.
QuadObj(name, material_id) ==
  [name |-> name,
   positions |-> <<0, 0, 0,  1, 0, 0,  1, 1, 0,  0, 1, 0>>,
   texcoords |-> <<0, 0,  1, 0,  1, 1,  0, 1>>,
   normals |-> <<0, 0, 1,  0, 0, 1,  0, 0, 1,  0, 0, 1>>,
   indices |-> <<0, 1, 2,  0, 2, 3>>,
   material_id |-> material_id]

\* One triangle whose texture is stretched to three times its width.
TriangleObj(name, material_id) ==
  [name |-> name,
   positions |-> <<0, 0, 0,  1, 0, 0,  0, 1, 0>>,
   texcoords |-> <<0, 0,  3, 0,  0, 1>>,
   normals |-> <<0, 0, 1,  0, 0, 1,  0, 0, 1>>,
   indices |-> <<0, 1, 2>>,
   material_id |-> material_id]

\* One triangle of no area in the texture: its three texture coordinates
\* are on one line.
DegenerateObj(name, material_id) ==
  [name |-> name,
   positions |-> <<0, 0, 0,  1, 0, 0,  0, 1, 0>>,
   texcoords |-> <<0, 0,  1, 0,  2, 0>>,
   normals |-> <<0, 0, 1,  0, 0, 1,  0, 0, 1>>,
   indices |-> <<0, 1, 2>>,
   material_id |-> material_id]

\* Two triangles that meet in their first vertex and are textured as
\* mirror images of each other.
MirroredObj(name, material_id) ==
  [name |-> name,
   positions |-> <<0, 0, 0,  1, 0, 0,  0, 1, 0,  -1, 0, 0,  0, -1, 0>>,
   texcoords |-> <<0, 0,  1, 0,  0, 1,  1, 0,  0, 1>>,
   normals |-> <<0, 0, 1,  0, 0, 1,  0, 0, 1,  0, 0, 1,  0, 0, 1>>,
   indices |-> <<0, 1, 2,  0, 3, 4>>,
   material_id |-> material_id]

\* res/cube.obj as loaded: two meshes, each with a material of its own.
LoadedModel ==
  Model_load(<<QuadObj("mesh0", <<0>>), TriangleObj("mesh1", <<1>>)>>,
             <<"material0", "material1">>)

(***************************************************************************)
(* model.rs and light.rs: the draw traits                                  *)
(***************************************************************************)
\* One call made on the render pass, the queue or the surface.
Op(op, slot, what, n, lo, hi) ==
  [op |-> op, slot |-> slot, what |-> what, n |-> n, lo |-> lo, hi |-> hi]

\* DrawLight::draw_light_mesh_instanced
Draw_light_mesh_instanced(mesh, instances) ==
  << Op("set_vertex_buffer", 0, mesh.name, 0, 0, 0),
     Op("set_index_buffer", 0, mesh.name, 0, 0, 0),
     Op("set_bind_group", 0, "camera", 0, 0, 0),
     Op("set_bind_group", 1, "light", 0, 0, 0),
     Op("draw_indexed", 0, mesh.name, mesh.num_elements,
        instances[1], instances[2]) >>

RECURSIVE LightMeshesFrom(_, _, _)
LightMeshesFrom(meshes, i, instances) ==
  IF i > Len(meshes) THEN <<>>
  ELSE Draw_light_mesh_instanced(meshes[i], instances)
       \o LightMeshesFrom(meshes, i + 1, instances)

\* DrawLight::draw_light_model_instanced
Draw_light_model_instanced(model, instances) ==
  LightMeshesFrom(model.meshes, 1, instances)

\* draw_light_model drawing two instances of the light's mesh.
Draw_light_model_two_instances(model) ==
  Draw_light_model_instanced(model, <<0, 2>>)

\* DrawLight::draw_light_model
Draw_light_model(model) == Draw_light_model_instanced(model, <<0, 1>>)

\* DrawModel::draw_mesh_instanced
Draw_mesh_instanced(mesh, material, instances) ==
  << Op("set_vertex_buffer", 0, mesh.name, 0, 0, 0),
     Op("set_index_buffer", 0, mesh.name, 0, 0, 0),
     Op("set_bind_group", 0, material, 0, 0, 0),
     Op("set_bind_group", 1, "camera", 0, 0, 0),
     Op("set_bind_group", 2, "light", 0, 0, 0),
     Op("draw_indexed", 0, mesh.name, mesh.num_elements,
        instances[1], instances[2]) >>

RECURSIVE MeshesFrom(_, _, _)
MeshesFrom(model, i, instances) ==
  IF i > Len(model.meshes) THEN <<>>
  ELSE Draw_mesh_instanced(model.meshes[i],
                           model.materials[model.meshes[i].material + 1],
                           instances)
       \o MeshesFrom(model, i + 1, instances)

\* DrawModel::draw_model_instanced
Draw_model_instanced(model, instances) == MeshesFrom(model, 1, instances)

(***************************************************************************)
(* The vertex buffer layouts (model.rs, ModelVertex; main.rs,              *)
(* InstanceData).  Both structs are #[repr(C)] and made of f32 arrays      *)
(* only, so a struct is as large as its floats together.                   *)
(***************************************************************************)
\* mem::size_of::<[f32; n]>()
SizeOfFloats(n) == 4 * n

RECURSIVE SumFrom(_, _)
SumFrom(seq, i) == IF i > Len(seq) THEN 0 ELSE seq[i] + SumFrom(seq, i + 1)

\* mem::size_of of a #[repr(C)] struct whose fields are arrays of so many
\* f32 each.
SizeOfStruct(fields) == SizeOfFloats(SumFrom(fields, 1))

\* struct ModelVertex: position, tex_coords, normal, tangent, bitangent.
ModelVertex_fields == <<3, 2, 3, 3, 3>>

\* struct InstanceData: model [[f32; 4]; 4], normal [[f32; 3]; 3].
InstanceData_fields == <<4 * 4, 3 * 3>>

VertexAttribute(offset, shader_location, format) ==
  [offset |-> offset, shader_location |-> shader_location, format |-> format]

\* ModelVertex::descriptor with the offset of the last attribute as stride.
ModelVertex_descriptor_last_offset ==
  [array_stride |-> SizeOfFloats(11),
   step_mode |-> "Vertex",
   attributes |->
     << VertexAttribute(0, 0, "Float32x3"),
        VertexAttribute(SizeOfFloats(3), 1, "Float32x2"),
        VertexAttribute(SizeOfFloats(5), 2, "Float32x3"),
        VertexAttribute(SizeOfFloats(8), 3, "Float32x3"),
        VertexAttribute(SizeOfFloats(11), 4, "Float32x3") >>]

\* <ModelVertex as Vertex>::descriptor
ModelVertex_descriptor ==
  [array_stride |-> SizeOfStruct(ModelVertex_fields),
   step_mode |-> "Vertex",
   attributes |->
     << VertexAttribute(0, 0, "Float32x3"),
        VertexAttribute(SizeOfFloats(3), 1, "Float32x2"),
        VertexAttribute(SizeOfFloats(5), 2, "Float32x3"),
        VertexAttribute(SizeOfFloats(8), 3, "Float32x3"),
        VertexAttribute(SizeOfFloats(11), 4, "Float32x3") >>]

\* <InstanceData as Vertex>::descriptor
InstanceData_descriptor ==
  [array_stride |-> SizeOfStruct(InstanceData_fields),
   step_mode |-> "Instance",
   attributes |->
     << VertexAttribute(0, 5, "Float32x4"),
        VertexAttribute(SizeOfFloats(4), 6, "Float32x4"),
        VertexAttribute(SizeOfFloats(8), 7, "Float32x4"),
        VertexAttribute(SizeOfFloats(12), 8, "Float32x4"),
        VertexAttribute(SizeOfFloats(16), 9, "Float32x3"),
        VertexAttribute(SizeOfFloats(19), 10, "Float32x3"),
        VertexAttribute(SizeOfFloats(22), 11, "Float32x3") >>]

\* create_render_pipeline: the pipeline as the vertex layouts it was given.
Create_render_pipeline(label, vertex_layouts) ==
  [label |-> label, buffers |-> vertex_layouts]

(***************************************************************************)
(* main.rs: State                                                          *)
(***************************************************************************)
\* Texture::create_depth_texture(.., &config): a depth texture of the
\* configuration's extent.
Create_depth_texture(config) ==
  [width |-> config.width, height |-> config.height]

\* State::new for a window of inner size `size`, with `rows` instances per
\* row of the grid.
State_new(size, rows) ==
  LET config == [width |-> size[1], height |-> size[2]]
      camera == Camera_new(<<0, 5000, 10000>>, Deg(-90), Deg(-20),
                           config.width, config.height, Deg(45), 100, 100000)
      camera_uniform == CameraUniform_update_view_proj(CameraUniform_new, camera)
      light_uniform ==
        LightUniform_new([from |-> <<2000, 2000, 2000>>, turn |-> 0],
                         <<1000, 1000, 1000>>)
      instances == GridInstances(rows)
  IN [config |-> config,
      size |-> size,
      camera |-> camera,
      camera_uniform |-> camera_uniform,
      camera_buffer |-> <<camera_uniform>>,
      camera_controller |-> Controller_new(4, 4),
      light_uniform |-> light_uniform,
      light_buffer |-> <<light_uniform>>,
      model |-> LoadedModel,
      depth_texture |-> Create_depth_texture(config),
      instances |-> instances,
      instance_buffer |-> InstanceDataOf(instances),
      mouse_pressed |-> FALSE]

\* State::resize without its test for a zero width or height.
State_resize_unguarded(s, surf, new_size) ==
  LET config == [s.config EXCEPT !.width = new_size[1],
                                 !.height = new_size[2]]
  IN [state |-> [s EXCEPT
                   !.size = new_size,
                   !.config = config,
                   !.depth_texture = Create_depth_texture(config),
                   !.camera = Camera_resize(s.camera, new_size[1],
                                            new_size[2])],
      surface |-> <<config.width, config.height>>,
      ops |-> << Op("configure", 0, "surface", 0,
                    config.width, config.height),
                 Op("create_depth_texture", 0, "depth_texture", 0,
                    config.width, config.height) >>]

\* State::resize: the state and the surface's configuration afterwards,
\* and the calls made.
State_resize(s, surf, new_size) ==
  IF new_size[1] > 0 /\ new_size[2] > 0
  THEN LET config == [s.config EXCEPT !.width = new_size[1],
                                      !.height = new_size[2]]
       IN [state |-> [s EXCEPT
                        !.size = new_size,
                        !.config = config,
                        !.depth_texture = Create_depth_texture(config),
                        !.camera = Camera_resize(s.camera, new_size[1],
                                                 new_size[2])],
           surface |-> <<config.width, config.height>>,
           ops |-> << Op("configure", 0, "surface", 0,
                         config.width, config.height),
                      Op("create_depth_texture", 0, "depth_texture", 0,
                         config.width, config.height) >>]
  ELSE [state |-> s, surface |-> surf, ops |-> <<>>]

\* State::input without the latch: every pointer motion reaches the
\* controller.
State_input_unlatched(s, event) ==
  CASE event.type = "Key" ->
         LET r == Controller_process_keyboard(s.camera_controller,
                                              event.key, event.state)
         IN [state |-> [s EXCEPT !.camera_controller = r.controller],
             ret |-> r.ret]
    [] event.type = "Button" /\ event.button = 1 ->
         [state |-> [s EXCEPT !.mouse_pressed = (event.state = "Pressed")],
          ret |-> TRUE]
    [] event.type = "MouseMotion" ->
         [state |-> [s EXCEPT !.camera_controller =
                       Controller_process_mouse(s.camera_controller,
                                                event.delta[1],
                                                event.delta[2])],
          ret |-> TRUE]
    [] OTHER -> [state |-> s, ret |-> FALSE]

\* State::input: the state afterwards and the value returned.
State_input(s, event) ==
  CASE event.type = "Key" ->
         LET r == Controller_process_keyboard(s.camera_controller,
                                              event.key, event.state)
         IN [state |-> [s EXCEPT !.camera_controller = r.controller],
             ret |-> r.ret]
    [] event.type = "Button" /\ event.button = 1 ->
         [state |-> [s EXCEPT !.mouse_pressed = (event.state = "Pressed")],
          ret |-> TRUE]
    [] event.type = "MouseMotion" ->
         [state |-> IF s.mouse_pressed
                    THEN [s EXCEPT !.camera_controller =
                            Controller_process_mouse(s.camera_controller,
                                                     event.delta[1],
                                                     event.delta[2])]
                    ELSE s,
          ret |-> TRUE]
    [] OTHER -> [state |-> s, ret |-> FALSE]

\* UpdateCamera without the write of the camera buffer.
UpdateCamera_unwritten(s, dt) ==
  LET r == Controller_update_camera(s.camera_controller, s.camera, dt)
      camera_uniform == CameraUniform_update_view_proj(s.camera_uniform, r.camera)
  IN [s EXCEPT !.camera_controller = r.controller,
               !.camera = r.camera,
               !.camera_uniform = camera_uniform]

\* State::update, the camera: update_camera, update_view_proj and the
\* write of the camera buffer.
UpdateCamera(s, dt) ==
  LET r == Controller_update_camera(s.camera_controller, s.camera, dt)
      camera_uniform == CameraUniform_update_view_proj(s.camera_uniform, r.camera)
  IN [s EXCEPT !.camera_controller = r.controller,
               !.camera = r.camera,
               !.camera_uniform = camera_uniform,
               !.camera_buffer = WriteBuffer(@, 0, <<camera_uniform>>)]

\* UpdateInstances writing the instance data into the first mesh's vertex
\* buffer.
UpdateInstances_into_model(s) ==
  LET instances ==
        [i \in 1..Len(s.instances) |->
           [s.instances[i] EXCEPT !.rotation =
              Quaternion_mul(
                Quaternion_from_axis_angle(<<0, 1, 0>>, ANGULAR_VELOCITY), @)]]
  IN [s EXCEPT !.instances = instances,
               !.model.meshes[1].vertex_buffer =
                  WriteBuffer(@, 0, InstanceDataOf(instances))]

\* State::update, the instances: each rotation is advanced and the whole
\* list serialised into the instance buffer.
UpdateInstances(s) ==
  LET instances ==
        [i \in 1..Len(s.instances) |->
           [s.instances[i] EXCEPT !.rotation =
              Quaternion_mul(
                Quaternion_from_axis_angle(<<0, 1, 0>>, ANGULAR_VELOCITY), @)]]
  IN [s EXCEPT !.instances = instances,
               !.instance_buffer = WriteBuffer(@, 0, InstanceDataOf(instances))]

\* State::update, the light: it orbits and is written to the light buffer.
UpdateLight(s, dt) ==
  LET light_uniform == [s.light_uniform EXCEPT !.position = OrbitLight(@, dt)]
  IN [s EXCEPT !.light_uniform = light_uniform,
               !.light_buffer = WriteBuffer(@, 0, <<light_uniform>>)]

\* State::update: the state afterwards and the buffer writes queued.
State_update(s, dt) ==
  [state |-> UpdateLight(UpdateInstances(UpdateCamera(s, dt)), dt),
   ops |-> << Op("write_buffer", 0, "camera_buffer", 1, 0, 0),
              Op("write_buffer", 0, "instance_buffer", Len(s.instances), 0, 0),
              Op("write_buffer", 0, "light_buffer", 1, 0, 0) >>]

\* State::render when get_current_texture returns `acquired`: the value
\* returned and the calls made.
State_render(s, acquired) ==
  IF acquired # "Ok"
  THEN [ret |-> acquired,
        ops |-> << Op("get_current_texture", 0, acquired, 0, 0, 0) >>]
  ELSE [ret |-> "Ok",
        ops |->
          << Op("get_current_texture", 0, "Ok", 0, 0, 0),
             Op("begin_render_pass", 0, "clear_color_and_depth", 0,
                s.depth_texture.width, s.depth_texture.height),
             Op("set_vertex_buffer", 1, "instance_buffer", 0, 0, 0),
             Op("set_pipeline", 0, "light_render_pipeline", 0, 0, 0) >>
          \o Draw_light_model(s.model)
          \o << Op("set_pipeline", 0, "render_pipeline", 0, 0, 0) >>
          \o Draw_model_instanced(s.model, <<0, Len(s.instances)>>)
          \o << Op("submit", 0, "queue", 1, 0, 0),
                Op("present", 0, "output", 0, 0, 0) >>]

(***************************************************************************)
(* main.rs: main and the closure given to event_loop.run                   *)
(*                                                                         *)
(* winit runs the closure once per event.  One iteration of its loop       *)
(* delivers the pending window and device events, then MainEventsCleared,  *)
(* then the RedrawRequested that request_redraw asked for, then            *)
(* RedrawEventsCleared; only then does it look at control_flow, and on     *)
(* Exit it leaves the loop and ends the process with status 0.             *)
(***************************************************************************)
\* A call made by the closure.
Call(handler, what, size, ret, calls) ==
  [handler |-> handler, what |-> what, size |-> size, ret |-> ret,
   ops |-> calls]

Bool(b) == IF b THEN "true" ELSE "false"

Init ==
  /\ \E size \in InitSizes :
       /\ state = State_new(size, LoopRows)
       /\ surface = size
  /\ pc = "events"
  /\ control_flow = "Poll"
  /\ last = Call("new", "", <<>>, "", <<>>)
  /\ fatal = FALSE
  /\ exit_code = <<>>
  /\ held = {}
  /\ loading = [fn |-> "none"]

\* The device events the closure can be given.
DeviceEvents(keys) ==
  [type : {"Key"}, key : keys, state : ElementStates]
  \cup [type : {"Button"}, button : Buttons, state : ElementStates]
  \cup [type : {"MouseMotion"}, delta : MouseDeltas]
  \cup [type : {"MouseWheel"}]

\* Event::DeviceEvent { ref event, .. } => { state.input(event); }
DeviceEvent(event) ==
  /\ pc = "events"
  /\ LET r == State_input(state, event)
     IN /\ state' = r.state
        /\ last' = Call("input", event.type, <<>>, Bool(r.ret), <<>>)
  /\ UNCHANGED <<surface, pc, control_flow, fatal, exit_code, loading, held>>

\* WindowEvent::CloseRequested => *control_flow = ControlFlow::Exit
WindowCloseRequested ==
  /\ pc = "events"
  /\ control_flow' = "Exit"
  /\ last' = Call("exit", "CloseRequested", <<>>, "", <<>>)
  /\ UNCHANGED <<state, surface, pc, fatal, exit_code, loading, held>>

\* WindowEvent::KeyboardInput: Escape pressed exits, anything else falls
\* to `_ => {}`.
WindowKeyboardInput(key, st) ==
  /\ pc = "events"
  /\ IF key = "Escape" /\ st = "Pressed"
     THEN /\ control_flow' = "Exit"
          /\ last' = Call("exit", "Escape", <<>>, "", <<>>)
     ELSE /\ control_flow' = control_flow
          /\ last' = Call("ignored", "KeyboardInput", <<>>, "", <<>>)
  /\ UNCHANGED <<state, surface, pc, fatal, exit_code, loading, held>>

\* WindowEvent::Resized(physical_size) => state.resize(*physical_size)
WindowResized(physical_size) ==
  /\ pc = "events"
  /\ LET r == State_resize(state, surface, physical_size)
     IN /\ state' = r.state
        /\ surface' = r.surface
        /\ last' = Call("resize", "", physical_size, "", r.ops)
  /\ UNCHANGED <<pc, control_flow, fatal, exit_code, loading, held>>

\* WindowEvent::ScaleFactorChanged { new_inner_size, .. } =>
\*   state.resize(**new_inner_size)
WindowScaleFactorChanged(new_inner_size) ==
  /\ pc = "events"
  /\ LET r == State_resize(state, surface, new_inner_size)
     IN /\ state' = r.state
        /\ surface' = r.surface
        /\ last' = Call("resize", "", new_inner_size, "", r.ops)
  /\ UNCHANGED <<pc, control_flow, fatal, exit_code, loading, held>>

\* Event::MainEventsCleared => window.request_redraw()
MainEventsCleared ==
  /\ pc = "events"
  /\ pc' = "redraw"
  /\ last' = Call("request_redraw", "MainEventsCleared", <<>>, "", <<>>)
  /\ UNCHANGED <<state, surface, control_flow, fatal, exit_code, loading, held>>

\* The time the redraws so far span, in ms: the light orbits by 60
\* millidegrees per ms.
Elapsed(s) == s.light_uniform.position.turn \div 60

\* Event::RedrawRequested, first half: dt = now - last_render_time and
\* state.update(dt).
RedrawRequestedUpdate(dt) ==
  /\ pc = "redraw"
  /\ Elapsed(state) + dt <= MaxElapsed
  /\ LET r == State_update(state, dt)
     IN /\ state' = r.state
        /\ last' = Call("update", "RedrawRequested", <<>>, "", r.ops)
  /\ pc' = "render"
  /\ UNCHANGED <<surface, control_flow, fatal, exit_code, loading, held>>

\* The match on state.render()'s result: the state, the surface and
\* control_flow afterwards, and the calls made by the arm taken.
RenderResultArm(s, surf, cf, result) ==
  CASE result = "Ok" ->
         [state |-> s, surface |-> surf, control_flow |-> cf, ops |-> <<>>]
    [] result = "Lost" ->
         LET r == State_resize(s, surf, s.size)
         IN [state |-> r.state, surface |-> r.surface, control_flow |-> cf,
             ops |-> r.ops]
    [] result = "OutOfMemory" ->
         [state |-> s, surface |-> surf, control_flow |-> "Exit", ops |-> <<>>]
    [] OTHER ->
         [state |-> s, surface |-> surf, control_flow |-> cf,
          ops |-> << Op("eprintln", 0, result, 0, 0, 0) >>]

\* Event::RedrawRequested, second half: state.render() and the match on
\* its result.
RedrawRequestedRender(acquired) ==
  /\ pc = "render"
  /\ LET r == State_render(state, acquired)
         a == RenderResultArm(state, surface, control_flow, r.ret)
     IN /\ state' = a.state
        /\ surface' = a.surface
        /\ control_flow' = a.control_flow
        /\ last' = Call("render", "RedrawRequested", <<>>, r.ret,
                        r.ops \o a.ops)
        /\ fatal' = (fatal \/ r.ret = "OutOfMemory")
  /\ pc' = "cleared"
  /\ UNCHANGED <<exit_code, loading, held>>

\* The end of an iteration that starts the next one whatever control_flow is.
RedrawEventsCleared_continues ==
  /\ pc = "cleared"
  /\ pc' = "events"
  /\ last' = Call("ignored", "RedrawEventsCleared", <<>>, "", <<>>)
  /\ UNCHANGED <<state, surface, control_flow, fatal, exit_code, loading, held>>

\* Event::RedrawEventsCleared falls to `_ => {}`; winit then ends the
\* iteration: on ControlFlow::Exit the loop is left and the process exits
\* with status 0, otherwise the next iteration starts.
RedrawEventsCleared ==
  /\ pc = "cleared"
  /\ IF control_flow = "Exit"
     THEN /\ pc' = "exited"
          /\ exit_code' = <<0>>
     ELSE /\ pc' = "events"
          /\ exit_code' = exit_code
  /\ last' = Call("ignored", "RedrawEventsCleared", <<>>, "", <<>>)
  /\ UNCHANGED <<state, surface, control_flow, fatal, loading, held>>

Next ==
  \/ \E event \in DeviceEvents(LoopKeys) : DeviceEvent(event)
  \/ WindowCloseRequested
  \/ \E key \in {"Escape", "W"}, st \in ElementStates :
       WindowKeyboardInput(key, st)
  \/ \E size \in Sizes : WindowResized(size)
  \/ \E size \in Sizes : WindowScaleFactorChanged(size)
  \/ MainEventsCleared
  \/ \E dt \in DtSet : RedrawRequestedUpdate(dt)
  \/ \E acquired \in SurfaceResults : RedrawRequestedRender(acquired)
  \/ RedrawEventsCleared

Spec == Init /\ [][Next]_vars

\* State::input under every key: device events only, no redraw.
InputNext == \E event \in DeviceEvents(Keys) : DeviceEvent(event)

InputSpec == Init /\ [][InputNext]_vars

(***************************************************************************)
(* The frame loop under a keyboard: the key events are those a keyboard    *)
(* sends (a key that is released was down; a key that is down may repeat   *)
(* its press; at most MaxHeld keys are down at a time), for the keys that  *)
(* share a direction with another key, and every frame acquires its image. *)
(***************************************************************************)
\* The keys of which two move the camera the same way.
AliasKeys == {"W", "Up", "S", "Down", "A", "Left", "D", "Right"}

\* Event::DeviceEvent for a DeviceEvent::Key sent by the keyboard.
KeyboardKey(key, st) ==
  /\ pc = "events"
  /\ st = "Released" => key \in held
  /\ st = "Pressed" => Cardinality(held \cup {key}) <= MaxHeld
  /\ LET r == State_input(state, [type |-> "Key", key |-> key, state |-> st])
     IN /\ state' = r.state
        /\ last' = Call("input", "Key", <<>>, Bool(r.ret), <<>>)
  /\ held' = IF st = "Pressed" THEN held \cup {key} ELSE held \ {key}
  /\ UNCHANGED <<surface, pc, control_flow, fatal, exit_code, loading>>

KeyNext ==
  \/ \E key \in AliasKeys, st \in ElementStates : KeyboardKey(key, st)
  \/ MainEventsCleared
  \/ \E dt \in DtSet : RedrawRequestedUpdate(dt)
  \/ \E acquired \in {"Ok"} : RedrawRequestedRender(acquired)
  \/ RedrawEventsCleared

KeySpec == Init /\ [][KeyNext]_vars

(***************************************************************************)
(* main.rs: State::new from the creation of the two render pipelines on:   *)
(* the model is loaded and the instance grid collected.                    *)
(*                                                                         *)
(* (0..N).flat_map(|z| (0..N).map(move |x| ..)).collect() run one item at  *)
(* a time: loading.z and loading.x are the iterators' positions and        *)
(* loading.instances the vector collected so far; then the instance data   *)
(* is mapped from it for the instance buffer.                              *)
(***************************************************************************)
GridInit ==
  /\ state = <<>>
  /\ surface = <<>>
  /\ pc = "new"
  /\ control_flow = "Poll"
  /\ last = Call("new", "", <<>>, "", <<>>)
  /\ fatal = FALSE
  /\ exit_code = <<>>
  /\ held = {}
  /\ loading = [fn |-> "State::new",
                render_pipeline |->
                  Create_render_pipeline("Render Pipeline",
                    <<ModelVertex_descriptor, InstanceData_descriptor>>),
                light_render_pipeline |->
                  Create_render_pipeline("Light Render Pipeline",
                    <<ModelVertex_descriptor>>),
                model |-> LoadedModel,
                z |-> 0, x |-> 0, instances |-> <<>>,
                instance_data |-> <<>>]

\* One item of the iterator chain is pushed onto the vector.
CollectInstance ==
  /\ loading.fn = "State::new"
  /\ loading.z < NUM_INSTANCES_PER_ROW
  /\ loading' =
       [loading EXCEPT
          !.instances = Append(@, GridInstance(loading.x, loading.z,
                                               NUM_INSTANCES_PER_ROW)),
          !.x = IF loading.x + 1 < NUM_INSTANCES_PER_ROW
                THEN loading.x + 1 ELSE 0,
          !.z = IF loading.x + 1 < NUM_INSTANCES_PER_ROW
                THEN loading.z ELSE loading.z + 1]
  /\ UNCHANGED <<state, surface, pc, control_flow, last, fatal, exit_code,
               held>>

\* The chain is exhausted: instances.iter().map(Instance::data).collect().
CollectInstanceData ==
  /\ loading.fn = "State::new"
  /\ loading.z = NUM_INSTANCES_PER_ROW
  /\ loading' = [loading EXCEPT !.fn = "State::new.instances",
                                !.instance_data = InstanceDataOf(loading.instances)]
  /\ UNCHANGED <<state, surface, pc, control_flow, last, fatal, exit_code,
               held>>

GridNext == CollectInstance \/ CollectInstanceData

GridSpec == GridInit /\ [][GridNext]_vars

(***************************************************************************)
(* model.rs: Model::load run step by step on what tobj::load_obj returned  *)
(*                                                                         *)
(* loading.at is the position in the function: "materials" in the loop     *)
(* over obj_materials, "models" between two passes of the loop over        *)
(* obj_models, "triangles" in the loop over the chunks of the indices,     *)
(* "upload" after the averaging loop, "done" on Ok(Self { .. }) and "err"  *)
(* when a `?` has returned the error.                                      *)
(***************************************************************************)
\* What tobj::load_obj can return: the models of the file and its
\* materials; a material_id, when there is one, is an index into them.
ObjModels ==
  { <<QuadObj("quad", <<>>)>>,
    <<QuadObj("quad", <<0>>)>>,
    <<TriangleObj("triangle", <<>>)>>,
    <<QuadObj("quad", <<1>>), TriangleObj("triangle", <<0>>)>>,
    <<MirroredObj("mirrored", <<>>), QuadObj("quad", <<0>>)>>,
    <<DegenerateObj("degenerate", <<0>>)>>,
    <<>> }

ObjMaterials == { <<>>, <<"material0">>, <<"material0", "material1">> }

ObjFiles ==
  { f \in [obj_models : ObjModels, obj_materials : ObjMaterials] :
      \A k \in 1..Len(f.obj_models) :
        \/ f.obj_models[k].material_id = <<>>
        \/ f.obj_models[k].material_id[1] < Len(f.obj_materials) }

LoadInit ==
  /\ state = <<>>
  /\ surface = <<>>
  /\ pc = "new"
  /\ control_flow = "Poll"
  /\ last = Call("new", "", <<>>, "", <<>>)
  /\ fatal = FALSE
  /\ exit_code = <<>>
  /\ held = {}
  /\ \E f \in ObjFiles :
       loading = [fn |-> "Model::load", at |-> "materials",
                  obj_models |-> f.obj_models,
                  obj_materials |-> f.obj_materials,
                  materials |-> <<>>, meshes |-> <<>>,
                  vertices |-> <<>>, triangles_included |-> <<>>, t |-> 0]

\* One pass of `for mat in obj_materials`: the two textures are loaded and
\* the Material pushed, or a Texture::load fails and `?` returns its error.
LoadMaterial(loaded) ==
  /\ loading.fn = "Model::load"
  /\ loading.at = "materials"
  /\ Len(loading.materials) < Len(loading.obj_materials)
  /\ loading' =
       IF loaded
       THEN [loading EXCEPT !.materials =
               Append(@, loading.obj_materials[Len(loading.materials) + 1])]
       ELSE [loading EXCEPT !.at = "err"]
  /\ UNCHANGED <<state, surface, pc, control_flow, last, fatal, exit_code,
               held>>

\* The start of one pass of `for model in obj_models`: the vertices and
\* the counters.
LoadVertices ==
  /\ loading.fn = "Model::load"
  /\ loading.at \in {"materials", "models"}
  /\ Len(loading.materials) = Len(loading.obj_materials)
  /\ Len(loading.meshes) < Len(loading.obj_models)
  /\ LET vertices == NewVertices(loading.obj_models[Len(loading.meshes) + 1])
     IN loading' = [loading EXCEPT
                      !.at = "triangles",
                      !.vertices = vertices,
                      !.triangles_included = NewTrianglesIncluded(vertices),
                      !.t = 0]
  /\ UNCHANGED <<state, surface, pc, control_flow, last, fatal, exit_code,
               held>>

\* One pass of `for idx in indices.chunks(3)`.
LoadTriangle ==
  /\ loading.fn = "Model::load"
  /\ loading.at = "triangles"
  /\ LET indices == loading.obj_models[Len(loading.meshes) + 1].indices
     IN /\ 3 * loading.t < Len(indices)
        /\ LET r == TriangleStep(loading.vertices, loading.triangles_included,
                                 Chunk(indices, loading.t))
           IN loading' = [loading EXCEPT
                            !.vertices = r.vertices,
                            !.triangles_included = r.triangles_included,
                            !.t = @ + 1]
  /\ UNCHANGED <<state, surface, pc, control_flow, last, fatal, exit_code,
               held>>

\* The chunks are exhausted: the averaging loop.
LoadAverage ==
  /\ loading.fn = "Model::load"
  /\ loading.at = "triangles"
  /\ 3 * loading.t >= Len(loading.obj_models[Len(loading.meshes) + 1].indices)
  /\ loading' = [loading EXCEPT
                   !.at = "upload",
                   !.vertices = AverageStep(loading.vertices,
                                            loading.triangles_included)]
  /\ UNCHANGED <<state, surface, pc, control_flow, last, fatal, exit_code,
               held>>

\* The end of the pass: the buffers are created and the Mesh is pushed.
LoadMeshPush ==
  /\ loading.fn = "Model::load"
  /\ loading.at = "upload"
  /\ loading' = [loading EXCEPT
                   !.at = "models",
                   !.meshes = Append(@, NewMesh(
                                loading.obj_models[Len(loading.meshes) + 1],
                                loading.vertices))]
  /\ UNCHANGED <<state, surface, pc, control_flow, last, fatal, exit_code,
               held>>

\* Ok(Self { meshes, materials })
LoadOk ==
  /\ loading.fn = "Model::load"
  /\ loading.at \in {"materials", "models"}
  /\ Len(loading.materials) = Len(loading.obj_materials)
  /\ Len(loading.meshes) = Len(loading.obj_models)
  /\ loading' = [loading EXCEPT !.at = "done"]
  /\ UNCHANGED <<state, surface, pc, control_flow, last, fatal, exit_code,
               held>>

LoadNext ==
  \/ \E loaded \in BOOLEAN : LoadMaterial(loaded)
  \/ LoadVertices
  \/ LoadTriangle
  \/ LoadAverage
  \/ LoadMeshPush
  \/ LoadOk

LoadSpec == LoadInit /\ [][LoadNext]_vars

\* The Model that Model::load returns, once it has.
Loaded == [meshes |-> loading.meshes, materials |-> loading.materials]

(***************************************************************************)
(* Properties                                                              *)
(***************************************************************************)
Controller == state.camera_controller

Camera == state.camera

\* C1: the camera pitch is within [-SAFE_FRAC_PI_2, SAFE_FRAC_PI_2] after
\* every update_camera call (and before the first), whatever deltas and dt
\* the update was given.
C1_PitchWithinClamp ==
  /\ -SAFE_FRAC_PI_2 <= Camera.pitch
  /\ Camera.pitch <= SAFE_FRAC_PI_2

\* An update has just pushed the pitch past the upper bound and the clamp
\* has brought it back onto it.
C1_Witness ==
  /\ pc = "render"
  /\ last.handler = "update"
  /\ Camera.pitch = SAFE_FRAC_PI_2

\* C5: the stored size, the surface configuration's extent, the surface's
\* own configuration and the depth buffer's extent are equal, and the
\* camera aspect is configured width / configured height, in every state.
C5_SizeConfigDepthAspectAgree ==
  /\ state.size = <<state.config.width, state.config.height>>
  /\ surface = state.size
  /\ state.depth_texture.width = state.config.width
  /\ state.depth_texture.height = state.config.height
  /\ state.config.width > 0 /\ state.config.height > 0
  /\ Camera.aspect[1] * state.config.height
       = Camera.aspect[2] * state.config.width
  /\ Camera.aspect[2] > 0

\* A nonzero resize to another size has just been handled.
C5_Witness ==
  /\ last.handler = "resize"
  /\ last.size = <<1, 2>>
  /\ state.size = <<1, 2>>
  /\ Len(last.ops) = 2

\* Whether a call to `op` is among `calls`.
Calls(calls, op) == \E i \in 1..Len(calls) : calls[i].op = op

\* C2: a frame whose acquisition reports the surface outdated or lost
\* reconfigures the surface at the stored size, records, submits and
\* presents nothing, does not request exit, and the loop goes on to the
\* next frame.
C2_StaleOrLostReconfigures ==
  [][ (pc = "render" /\ pc' = "cleared" /\ last'.ret \in {"Outdated", "Lost"})
      => /\ \E i \in 1..Len(last'.ops) :
              /\ last'.ops[i].op = "configure"
              /\ <<last'.ops[i].lo, last'.ops[i].hi>> = state.size
         /\ surface' = state.size
         /\ ~Calls(last'.ops, "begin_render_pass")
         /\ ~Calls(last'.ops, "draw_indexed")
         /\ ~Calls(last'.ops, "submit")
         /\ ~Calls(last'.ops, "present")
         /\ control_flow' = control_flow
         /\ (control_flow' # "Exit" => (ENABLED RedrawEventsCleared)')
    ]_vars

\* C3: the process ends with status 0 when it ends on a close request or an
\* Escape press, and with a non-zero status when an acquisition failed
\* with OutOfMemory.
C3_ExitCodeTellsCause ==
  exit_code # <<>> => (fatal <=> exit_code # <<0>>)

\* C4: State::resize with a zero width or height changes nothing: the
\* state, the surface's configuration, and no call is made.
C4_ZeroResizeIsNoOp ==
  [][ (last'.handler = "resize" /\ last' # last
       /\ (last'.size[1] = 0 \/ last'.size[2] = 0))
      => /\ state' = state
         /\ surface' = surface
         /\ last'.ops = <<>>
    ]_vars

\* A resize to zero height has just been handled, after the window had been
\* given another size than it started with.
C4_Witness ==
  /\ last.handler = "resize"
  /\ last.size = <<2, 0>>
  /\ state.size = <<1, 2>>

\* The flag the claim gives each recognised key, and the value a press or
\* a release gives that flag.
RecognisedKeys == {"W", "Up", "S", "Down", "A", "Left", "D", "Right",
                   "Space", "LControl", "LShift"}

FlagOfKey(key) ==
  CASE key \in {"W", "Up"} -> "amount_forward"
    [] key \in {"S", "Down"} -> "amount_backward"
    [] key \in {"A", "Left"} -> "amount_left"
    [] key \in {"D", "Right"} -> "amount_right"
    [] key = "Space" -> "amount_up"
    [] key = "LControl" -> "amount_down"
    [] key = "LShift" -> "fast"

FlagValue(flag, st) ==
  IF flag = "fast" THEN st = "Pressed"
  ELSE IF st = "Pressed" THEN 1 ELSE 0

\* C6: a key event for a recognised key sets that key's one flag to
\* pressed / released, changes nothing else and is reported handled; a key
\* event for any other key changes nothing and is reported unhandled.
C6_KeyboardMapsOneFlag ==
  [][ \A key \in Keys, st \in ElementStates :
        DeviceEvent([type |-> "Key", key |-> key, state |-> st])
        => IF key \in RecognisedKeys
           THEN /\ state' = [state EXCEPT
                       !.camera_controller[FlagOfKey(key)] =
                          FlagValue(FlagOfKey(key), st)]
                /\ last'.ret = "true"
           ELSE /\ state' = state
                /\ last'.ret = "false"
    ]_vars

\* Keys have been handled: the Down arrow and left control are held, as is
\* the shift key, and the last key was not one the controller knows.
C6_Witness ==
  /\ Controller.amount_backward = 1
  /\ Controller.amount_down = 1
  /\ Controller.amount_forward = 0
  /\ Controller.fast
  /\ last.handler = "input" /\ last.what = "Key" /\ last.ret = "false"

\* C7: an update leaves both rotation deltas zero; the deltas stay zero
\* until a pointer motion is handled; and an update that finds them zero
\* leaves yaw and pitch as they were.
C7_DeltasZeroedByUpdate ==
  [][ /\ (pc = "redraw" /\ pc' = "render")
         => /\ Controller'.rotate_horizontal = 0
            /\ Controller'.rotate_vertical = 0
            /\ (Controller.rotate_horizontal = 0
                /\ Controller.rotate_vertical = 0)
               => /\ Camera'.yaw = Camera.yaw
                  /\ Camera'.pitch = Camera.pitch
      /\ (/\ Controller.rotate_horizontal = 0
          /\ Controller.rotate_vertical = 0
          /\ ~(last'.handler = "input" /\ last'.what = "MouseMotion"))
         => /\ Controller'.rotate_horizontal = 0
            /\ Controller'.rotate_vertical = 0
    ]_vars

\* An update has consumed a pending pointer motion: the yaw has turned and
\* the deltas are zero again.
C7_Witness ==
  /\ pc = "render"
  /\ last.handler = "update"
  /\ Camera.yaw # Deg(-90)
  /\ Controller.rotate_horizontal = 0
  /\ Controller.rotate_vertical = 0

\* C8: the latch starts released; a left-button event sets it to that
\* event's pressed / released state and nothing else changes it; a pointer
\* motion sets the rotation deltas when the latch is held and changes
\* nothing of the state when it is released.
C8_MotionOnlyWhileLatched ==
  /\ ~state.mouse_pressed
  /\ [][ /\ \A b \in Buttons, st \in ElementStates :
              DeviceEvent([type |-> "Button", button |-> b, state |-> st])
              => state'.mouse_pressed =
                   IF b = 1 THEN st = "Pressed" ELSE state.mouse_pressed
         /\ ~(last'.handler = "input" /\ last'.what = "Button")
              => state'.mouse_pressed = state.mouse_pressed
         /\ \A delta \in MouseDeltas :
              DeviceEvent([type |-> "MouseMotion", delta |-> delta])
              => IF state.mouse_pressed
                 THEN /\ Controller'.rotate_horizontal = delta[1]
                      /\ Controller'.rotate_vertical = delta[2]
                 ELSE state' = state
       ]_vars

\* A pointer motion has just been handled with the latch released, after
\* an earlier one had been handled with the latch held.
C8_Witness ==
  /\ last.handler = "input" /\ last.what = "MouseMotion"
  /\ ~state.mouse_pressed
  /\ Controller.rotate_horizontal = 3927

\* The places of the calls to `op` among `calls`.
Places(calls, op) == {i \in 1..Len(calls) : calls[i].op = op}

\* The place of the k-th draw among `calls`.
DrawAt(calls, k) ==
  CHOOSE i \in Places(calls, "draw_indexed") :
    Cardinality({j \in Places(calls, "draw_indexed") : j < i}) = k - 1

\* What is bound when the call at place i is made: the bind groups set
\* since the draw or pipeline change before it.
BoundAt(calls, i) ==
  {calls[j].what :
     j \in {j \in 1..(i - 1) :
              /\ calls[j].op = "set_bind_group"
              /\ \A l \in (j + 1)..(i - 1) :
                   calls[l].op \notin {"draw_indexed", "set_pipeline"}}}

\* The pipeline set when the call at place i is made.
PipelineAt(calls, i) ==
  LET before == {j \in Places(calls, "set_pipeline") : j < i}
  IN IF before = {} THEN "none"
     ELSE calls[CHOOSE j \in before : \A l \in before : l <= j].what

\* C9: a frame whose acquisition succeeds clears colour and depth, binds
\* the instance buffer to vertex slot 1, draws every mesh with the light
\* pipeline for the instance range 0..1 with camera and light bound, then
\* every mesh with the main pipeline for the instance range 0..(number of
\* instances) with the mesh's material, camera and light bound, then
\* submits once, then presents once.
C9_FrameOperationsInOrder ==
  (pc = "cleared" /\ last.handler = "render" /\ last.ret = "Ok") =>
    LET o == last.ops
        n == Len(o)
        meshes == state.model.meshes
        m == Len(meshes)
    IN /\ o[1].op = "get_current_texture"
       /\ o[2].op = "begin_render_pass" /\ o[2].what = "clear_color_and_depth"
       /\ o[3].op = "set_vertex_buffer" /\ o[3].slot = 1
       /\ o[3].what = "instance_buffer"
       /\ Places(o, "begin_render_pass") = {2}
       /\ Cardinality(Places(o, "draw_indexed")) = 2 * m
       /\ \A k \in 1..m :
            LET i == DrawAt(o, k)
            IN /\ 3 < i
               /\ PipelineAt(o, i) = "light_render_pipeline"
               /\ o[i].what = meshes[k].name
               /\ o[i].n = meshes[k].num_elements
               /\ <<o[i].lo, o[i].hi>> = <<0, 1>>
               /\ {"camera", "light"} \subseteq BoundAt(o, i)
       /\ \A k \in 1..m :
            LET i == DrawAt(o, m + k)
            IN /\ PipelineAt(o, i) = "render_pipeline"
               /\ o[i].what = meshes[k].name
               /\ o[i].n = meshes[k].num_elements
               /\ <<o[i].lo, o[i].hi>> = <<0, Len(state.instances)>>
               /\ { state.model.materials[meshes[k].material + 1],
                    "camera", "light" } \subseteq BoundAt(o, i)
               /\ i < n - 1
       /\ Places(o, "submit") = {n - 1}
       /\ Places(o, "present") = {n}

\* A frame has been drawn and presented.
C9_Witness ==
  /\ pc = "cleared"
  /\ last.handler = "render" /\ last.ret = "Ok"
  /\ Calls(last.ops, "present")

\* What the three buffers hold is the serialisation of the camera, the
\* instance list and the light as they are now.
BuffersCurrent ==
  /\ state.camera_buffer =
       << [view_pos |-> <<Camera.position[1], Camera.position[2],
                          Camera.position[3], 1>>,
           view_proj |->
             [projection |-> [fovy |-> Camera.fovy, aspect |-> Camera.aspect,
                              near |-> Camera.near, far |-> Camera.far],
              view |-> [eye |-> Camera.position, yaw |-> Camera.yaw,
                        pitch |-> Camera.pitch]]] >>
  /\ state.camera_buffer[1].view_proj.projection.aspect[1] * state.config.height
       = state.camera_buffer[1].view_proj.projection.aspect[2] * state.config.width
  /\ Len(state.instance_buffer) = Len(state.instances)
  /\ \A i \in 1..Len(state.instances) :
       /\ state.instance_buffer[i].model.translation = state.instances[i].position
       /\ state.instance_buffer[i].model.rotation = state.instances[i].rotation
       /\ state.instance_buffer[i].normal = state.instances[i].rotation
  /\ state.light_buffer = <<state.light_uniform>>

\* C10: within a frame the update runs, then the render, with no other
\* handler between them; and when the render acquires the image the three
\* buffers hold the current camera (with the aspect of the latest resize),
\* instance list and light.
C10_BuffersCurrentAtRender ==
  /\ [](pc = "render" => BuffersCurrent)
  /\ [][ /\ pc = "redraw" => (pc' = "render" /\ last'.handler = "update")
         /\ pc = "render" => (pc' = "cleared" /\ last'.handler = "render")
       ]_vars

\* The render is about to acquire the image, after the window was given
\* another aspect and the camera has moved and turned.
C10_Witness ==
  /\ pc = "render"
  /\ Camera.aspect = <<1, 2>>
  /\ Camera.position # <<0, 5000, 10000>>
  /\ Camera.yaw # Deg(-90)

\* C11, as claimed: a close request or an Escape press is handled only
\* between frames, never between the update and the render of one frame,
\* and once it has been handled no update and no render is executed.
C11_NoFrameAfterExitRequest ==
  [][ /\ (last'.handler = "exit" /\ last' # last) => pc = "events"
      /\ (control_flow = "Exit" /\ ~fatal)
         => /\ ~(pc = "redraw" /\ pc' = "render")
            /\ ~(pc = "render" /\ pc' = "cleared")
    ]_vars

\* C11, amended: a close request or an Escape press is handled only in the
\* event phase, never between the update and the render of one frame; the
\* iteration in progress is then completed, with at most one update and one
\* render, the loop ends at the end of that iteration, and after that
\* nothing is executed.
C11_ExitAtEndOfIteration ==
  [][ /\ (last'.handler = "exit" /\ last' # last)
         => (pc = "events" /\ pc' = "events" /\ control_flow' = "Exit"
             /\ state' = state)
      /\ pc = "render" => (pc' = "cleared" /\ last'.handler = "render")
      /\ control_flow = "Exit" => control_flow' = "Exit"
      /\ (control_flow = "Exit" /\ pc = "cleared")
         => (pc' = "exited" /\ exit_code' = <<0>>)
      /\ (control_flow = "Exit" /\ pc = "redraw") => pc' = "render"
      /\ pc = "exited" => FALSE
      /\ pc' = "exited" => (pc = "cleared" /\ control_flow = "Exit")
    ]_vars

\* A close request or an Escape press has been handled and the frame of the
\* same iteration has been drawn and presented since.
C11_Witness ==
  /\ pc = "cleared"
  /\ control_flow = "Exit" /\ ~fatal
  /\ last.handler = "render" /\ last.ret = "Ok"
  /\ Calls(last.ops, "present")

\* Whether the vectors a and b point the same way.
SameDirection(a, b) ==
  /\ a[2] * b[3] = a[3] * b[2]
  /\ a[3] * b[1] = a[1] * b[3]
  /\ a[1] * b[2] = a[2] * b[1]
  /\ a[1] * b[1] + a[2] * b[2] + a[3] * b[3] > 0

\* C12: the grid for N = 10 and spacing 3.0 has exactly 100 instances, in
\* row-major order (row z outer, column x inner), the one of column x and
\* row z at 3.0 * (x - 5, 0, z - 5); exactly the instance at the origin has
\* the identity rotation and every other one a rotation by 45 degrees
\* (0.7854 rad) about the direction of its own position; the instance data
\* is one entry per instance, in the same order.
C12_GridOfHundred ==
  loading.fn = "State::new.instances" =>
    LET instances == loading.instances IN
    /\ Len(instances) = 100
    /\ \A z \in 0..9, x \in 0..9 :
         instances[10 * z + x + 1].position
           = <<3000 * (x - 5), 0, 3000 * (z - 5)>>
    /\ Cardinality({i \in 1..Len(instances) : instances[i].rotation = <<>>}) = 1
    /\ \A i \in 1..Len(instances) :
         IF instances[i].position = <<0, 0, 0>>
         THEN instances[i].rotation = <<>>
         ELSE /\ Len(instances[i].rotation) = 1
              /\ instances[i].rotation[1].angle = 7854
              /\ SameDirection(instances[i].rotation[1].axis,
                               instances[i].position)
    /\ Len(loading.instance_data) = 100
    /\ \A i \in 1..Len(instances) :
         loading.instance_data[i].model.translation = instances[i].position

\* The grid has been collected; the instance of column 5 of row 5 is the
\* one at the origin, with the identity rotation.
C12_Witness ==
  /\ loading.fn = "State::new.instances"
  /\ Len(loading.instances) = 100
  /\ loading.instances[56].position = <<0, 0, 0>>
  /\ loading.instances[56].rotation = <<>>
  /\ loading.instances[1].rotation # <<>>

\* C13: no step of the frame cycle (the handling of events, State::update
\* with any dt, State::render with any acquisition outcome and the match
\* on its result) changes the loaded model: the list of meshes, each
\* mesh's vertex buffer contents, index buffer contents, element count and
\* material index, and the list of materials stay as they were, and so
\* they are, after any number of frames, what Model::load returned.
C13_ModelNotMutated ==
  /\ [][ /\ Len(state'.model.meshes) = Len(state.model.meshes)
         /\ \A k \in 1..Len(state.model.meshes) :
              /\ state'.model.meshes[k].vertex_buffer
                   = state.model.meshes[k].vertex_buffer
              /\ state'.model.meshes[k].index_buffer
                   = state.model.meshes[k].index_buffer
              /\ state'.model.meshes[k].num_elements
                   = state.model.meshes[k].num_elements
              /\ state'.model.meshes[k].material
                   = state.model.meshes[k].material
         /\ state'.model.materials = state.model.materials
       ]_vars
  /\ [](state.model = LoadedModel)

\* A second frame has been drawn and presented, after the camera has
\* moved, and the first mesh still has its vertices and indices.
C13_Witness ==
  /\ pc = "cleared"
  /\ last.handler = "render" /\ last.ret = "Ok"
  /\ Elapsed(state) >= 2
  /\ Camera.position # <<0, 5000, 10000>>
  /\ Len(state.model.meshes[1].vertex_buffer) = 4
  /\ state.model.meshes[1].vertex_buffer[1].tangent.v = <<1000, 0, 0>>
  /\ state.model.meshes[1].index_buffer = <<0, 1, 2, 0, 2, 3>>

\* The size in bytes of the data an attribute of the given format reads.
FormatSize(format) ==
  CASE format = "Float32x2" -> 8
    [] format = "Float32x3" -> 12
    [] format = "Float32x4" -> 16

\* C14, as claimed: the per-vertex stride declared is 44 bytes and the
\* per-instance stride declared is 88 bytes.
C14_StridesAre44And88 ==
  /\ loading.render_pipeline.buffers[1].array_stride = 44
  /\ loading.render_pipeline.buffers[2].array_stride = 88
  /\ loading.light_render_pipeline.buffers[1].array_stride = 44

\* C14, amended: with 4-byte floats the per-vertex stride declared is 56
\* bytes (position 3 floats, UV 2, normal 3, tangent 3, bitangent 3, in
\* that order, 14 floats) and the per-instance stride declared is 100 bytes
\* (4x4 model matrix followed by 3x3 normal matrix, 25 floats); 44 and 88
\* are the byte offsets of the last attribute of each layout (the
\* bitangent, the third row of the normal matrix), and each stride is that
\* offset plus the 12 bytes of that attribute.
C14_StridesAre56And100 ==
  LET vertex == loading.render_pipeline.buffers[1]
      instance == loading.render_pipeline.buffers[2]
      Offsets(layout) ==
        [k \in 1..Len(layout.attributes) |-> layout.attributes[k].offset]
      Packed(layout) ==
        /\ layout.attributes[1].offset = 0
        /\ \A k \in 1..(Len(layout.attributes) - 1) :
             layout.attributes[k + 1].offset
               = layout.attributes[k].offset
                 + FormatSize(layout.attributes[k].format)
        /\ layout.array_stride
             = layout.attributes[Len(layout.attributes)].offset
               + FormatSize(layout.attributes[Len(layout.attributes)].format)
  IN /\ Len(loading.render_pipeline.buffers) = 2
     /\ vertex.array_stride = 56
     /\ Offsets(vertex) = <<0, 12, 20, 32, 44>>
     /\ Packed(vertex)
     /\ instance.array_stride = 100
     /\ Offsets(instance) = <<0, 16, 32, 48, 64, 76, 88>>
     /\ Packed(instance)
     /\ loading.light_render_pipeline.buffers = <<vertex>>

\* The pipelines have been created with the two layouts and the instance
\* data collected for the buffer the second layout describes.
C14_Witness ==
  /\ loading.fn = "State::new.instances"
  /\ Len(loading.instance_data) = 100
  /\ loading.render_pipeline.buffers[1].array_stride = 56
  /\ loading.render_pipeline.buffers[2].array_stride = 100
  /\ loading.render_pipeline.buffers[2].step_mode = "Instance"

\* Whether a tangent or bitangent is a vector of length one: v / sqrt(over)
\* with |v| * |v| = over.
UnitLength(a) == a.finite /\ a.over > 0 /\ Dot(a.v, a.v) = a.over

\* C15, as claimed: when Model::load has succeeded the tangent and the
\* bitangent of every vertex of every mesh of the model are of unit length.
C15_AllTangentsUnit ==
  loading.at = "done" =>
    \A k \in 1..Len(Loaded.meshes) :
      \A i \in 1..Len(Loaded.meshes[k].vertex_buffer) :
        /\ UnitLength(Loaded.meshes[k].vertex_buffer[i].tangent)
        /\ UnitLength(Loaded.meshes[k].vertex_buffer[i].bitangent)

\* C15, amended: the averaging loop leaves the tangent of a vertex of unit
\* length when the tangent accumulated for it is finite and not the zero
\* vector, and otherwise not finite (NaN): so it is for a vertex of a
\* triangle without area in the texture, for a vertex whose triangles'
\* tangents cancel, and for one no triangle references; likewise the
\* bitangent.  When Model::load has succeeded every tangent and bitangent
\* of the model is of unit length or not finite.
C15_TangentsUnitOrNotFinite ==
  /\ [][ (loading.at = "triangles" /\ loading'.at = "upload") =>
           \A i \in 1..Len(loading.vertices) :
             /\ UnitLength(loading'.vertices[i].tangent)
                  <=> (/\ loading.vertices[i].tangent.finite
                       /\ loading.vertices[i].tangent.v # <<0, 0, 0>>)
             /\ UnitLength(loading'.vertices[i].bitangent)
                  <=> (/\ loading.vertices[i].bitangent.finite
                       /\ loading.vertices[i].bitangent.v # <<0, 0, 0>>)
             /\ ~loading'.vertices[i].tangent.finite
                  <=> ~UnitLength(loading'.vertices[i].tangent)
             /\ ~loading'.vertices[i].bitangent.finite
                  <=> ~UnitLength(loading'.vertices[i].bitangent)
       ]_vars
  /\ [](loading.at = "done" =>
          \A k \in 1..Len(Loaded.meshes) :
            \A i \in 1..Len(Loaded.meshes[k].vertex_buffer) :
              LET vertex == Loaded.meshes[k].vertex_buffer[i]
              IN /\ UnitLength(vertex.tangent) \/ ~vertex.tangent.finite
                 /\ UnitLength(vertex.bitangent) \/ ~vertex.bitangent.finite)

\* Model::load has succeeded on the mirrored pair of triangles and the
\* square: the tangent of the vertex the two triangles share is not
\* finite, that of the next vertex is of unit length, and the square's
\* first vertex has the tangent (1, 0, 0) and the bitangent (0, 1, 0).
C15_Witness ==
  /\ loading.at = "done"
  /\ Len(Loaded.meshes) = 2
  /\ Loaded.meshes[1].name = "mirrored"
  /\ ~Loaded.meshes[1].vertex_buffer[1].tangent.finite
  /\ UnitLength(Loaded.meshes[1].vertex_buffer[2].tangent)
  /\ UnitLength(Loaded.meshes[2].vertex_buffer[1].tangent)
  /\ Loaded.meshes[2].vertex_buffer[1].tangent.v[2] = 0
  /\ Loaded.meshes[2].vertex_buffer[1].tangent.v[3] = 0
  /\ Loaded.meshes[2].vertex_buffer[1].tangent.v[1] > 0
  /\ Loaded.meshes[2].vertex_buffer[1].bitangent.v[1] = 0
  /\ Loaded.meshes[2].vertex_buffer[1].bitangent.v[2] > 0

\* The number of triangles among the first t chunks of the index list that
\* reference the vertex of index i (from 0).
RECURSIVE TrianglesOf(_, _, _)
TrianglesOf(indices, t, i) ==
  IF t = 0 THEN 0
  ELSE TrianglesOf(indices, t - 1, i)
       + (IF i \in {indices[3 * t - 2], indices[3 * t - 1], indices[3 * t]}
          THEN 1 ELSE 0)

\* C16: in Model::load the counter of a vertex starts at zero and, when the
\* averaging loop divides by it, is the number of triangles of the index
\* list that reference the vertex.
C16_CounterIsTriangleCount ==
  (loading.at \in {"triangles", "upload"}) =>
    LET indices == loading.obj_models[Len(loading.meshes) + 1].indices
    IN \A k \in 1..Len(loading.triangles_included) :
         loading.triangles_included[k] = TrianglesOf(indices, loading.t, k - 1)

\* The coordinates the collected instances have along axis a (1 for x, 3
\* for z).
Coordinates(instances, a) ==
  {instances[i].position[a] : i \in 1..Len(instances)}

\* The least and the greatest member of a set of numbers.
Least(S) == CHOOSE m \in S : \A n \in S : m <= n

Greatest(S) == CHOOSE m \in S : \A n \in S : n <= m

\* C17: the grid collected for N = 10 and spacing 3.0 is centred on the
\* origin: along x and along z the set of instance coordinates is
\* symmetric about 0, its least member the negative of its greatest.
C17_GridCentredOnOrigin ==
  loading.fn = "State::new.instances" =>
    \A a \in {1, 3} :
      LET S == Coordinates(loading.instances, a)
      IN /\ Least(S) = -Greatest(S)
         /\ \A c \in S : -c \in S

\* C18: a pointer motion handled with the latch held adds its deltas to
\* the pending ones, so that the pending deltas are the sums over the
\* motions since the last update; and the update turns the yaw by the
\* pending horizontal delta times sensitivity times dt, and the pitch,
\* before it is clamped, by the pending vertical one likewise.
C18_DeltasAccumulate ==
  [][ /\ \A delta \in MouseDeltas :
           (DeviceEvent([type |-> "MouseMotion", delta |-> delta])
            /\ state.mouse_pressed)
           => /\ Controller'.rotate_horizontal
                   = Controller.rotate_horizontal + delta[1]
              /\ Controller'.rotate_vertical
                   = Controller.rotate_vertical + delta[2]
      /\ (pc = "redraw" /\ pc' = "render")
         => LET dt == Elapsed(state') - Elapsed(state)
            IN /\ Camera'.yaw = Camera.yaw
                    + Controller.rotate_horizontal * Controller.sensitivity * dt
               /\ Camera'.pitch = ClampPitch(Camera.pitch
                    - Controller.rotate_vertical * Controller.sensitivity * dt)
    ]_vars

\* C19: for every mesh of a model that Model::load returned, the mesh's
\* material index is an index into the model's list of materials, also
\* when the sub-mesh declared no material and got material 0; so
\* draw_model_instanced finds materials[mesh.material] for every mesh.
C19_MaterialIndexValid ==
  loading.at = "done" =>
    \A k \in 1..Len(Loaded.meshes) :
      /\ 0 <= Loaded.meshes[k].material
      /\ Loaded.meshes[k].material < Len(Loaded.materials)
      /\ (Loaded.meshes[k].material + 1) \in DOMAIN Loaded.materials

\* The four flags that two keys each are mapped to.
AliasFlags == {"amount_forward", "amount_backward", "amount_left",
               "amount_right"}

\* C20: each of the four flags with two keys is 1 or 0, the pressed or
\* released state of the latest event among its two keys, not the number
\* of its keys that are down: a key event sets its flag to the event's
\* state and leaves the other flags alone, whatever keys are down; so the
\* release of one of two keys that are both down clears their flag while
\* the other is still down; and no update_camera call, nor anything else
\* but a key event, changes a flag.
C20_FlagIsLatestEvent ==
  /\ [](\A f \in AliasFlags : Controller[f] \in {0, 1})
  /\ [][ /\ \A key \in AliasKeys, st \in ElementStates :
              KeyboardKey(key, st)
              => /\ Controller'[FlagOfKey(key)]
                      = (IF st = "Pressed" THEN 1 ELSE 0)
                 /\ \A f \in AliasFlags \ {FlagOfKey(key)} :
                      Controller'[f] = Controller[f]
                 /\ \A other \in held \ {key} :
                      (st = "Released" /\ FlagOfKey(other) = FlagOfKey(key))
                      => /\ other \in held'
                         /\ Controller'[FlagOfKey(other)] = 0
         /\ last'.handler # "input"
              => \A f \in AliasFlags : Controller'[f] = Controller[f]
       ]_vars

\* W and Up were both down and a frame moved the camera forward; W has
\* been released since, and the update of the next frame has left the
\* camera where it was although Up is still down.
C20_Witness ==
  /\ pc = "render"
  /\ last.handler = "update"
  /\ held = {"Up"}
  /\ Controller.amount_forward = 0
  /\ Elapsed(state) = 2
  /\ Camera.position = <<0, 5000, 9996>>

====
